---- MODULE Spec2Model ----
\* Matchmaking + chat server (server.js): the waiting queue, the room table,
\* the client registry and the handlers of the WebSocket events.
\*
\* The time at which a handler starts and the enqueuedAt of the entries are
\* readings of Date.now(), in milliseconds. The program only ever subtracts
\* one reading of Date.now() from another, so the readings are kept relative
\* to the enqueue of the oldest waiting entry (Rebase): now is the time that
\* entry has waited, 0 when nobody waits.
\*
\* tryMatch reads Date.now() twice for every pair it evaluates, and the clock
\* may move on between two readings: the readings of one call are an input of
\* the call (clk), the milliseconds each reading is ahead of the start of the
\* handler, in the order of the readings and never decreasing. The waits, the
\* waiting bonus and the totals are doubles, computed as the source computes
\* them, each division and each addition rounding its result.
\*
\* Spec is the server as it runs, from its start. MatchSpec applies tryMatch,
\* and TickSpec the interval callback under fairness, to queues drawn at
\* will, as the functions of the queue that they are.
EXTENDS Integers, Sequences, FiniteSets, TLC

\* ---------------------------------------------------------------- bounds
\* Sockets are numbered in the order the server accepts them: NConn sockets
\* in all, at most MaxOpen of them with an open transport at a time; the
\* oldest entry of the queue waits at most MaxTime steps of StepMs.
NConn == 4
MaxOpen == 2
MaxTime == 1

\* The most entries of a drawn queue (MatchInit, TickInit).
MaxDrawn == 3

\* The longest wait of an entry of a drawn queue (MatchInit), in steps of
\* StepMs: one millisecond more than that many steps.
LongWait == 12

\* The most milliseconds Date.now() moves on during one call of tryMatch.
MaxDrift == 1

\* ------------------------------------------------------------- constants
Conns == 1..NConn
Null == 0
Undefined == "undefined"
UidPool == 1..(NConn + 1)

\* The time between two events, in milliseconds of Date.now().
StepMs == 3000

\* A text field that is an object without a callable toString or valueOf,
\* such as {"toString": 0}: String() of it throws a TypeError.
NoString == "{toString: 0}"

VARIABLES
    readyState, \* ws -> "NONE" (not accepted yet) | "OPEN" | "CLOSING" | "CLOSED"
    clients,    \* Map ws -> [id, roomId, state, prefs]
    queue,      \* waiting queue: sequence of [ws, prefs, enqueuedAt]
    rooms,      \* Map roomId -> [a, b]
    now,        \* Date.now(), counted from the oldest enqueuedAt of the queue
    awaiting,   \* open ws -> the last message sent to it was "searching"
    crashed     \* an exception left a handler: the process is gone

vars == <<readyState, clients, queue, rooms, now, awaiting, crashed>>

\* The part of the state the functions of server.js read and write, the
\* ws.send calls a handler has made so far, in order, and whether an exception
\* has left the handler.
Store ==
    [clients |-> clients, queue |-> queue, rooms |-> rooms, sent |-> <<>>,
     threw |-> FALSE]

\* ------------------------------------------------------------ primitives
Truthy(v) == v # Undefined /\ v # ""

OrElse(v, d) == IF Truthy(v) THEN v ELSE d

\* uid(): a random identifier, different from every identifier in use. The
\* identifier of a client is named after its socket; the identifier of a room
\* is the least one that no room and no client record holds.
uid(used) ==
    CHOOSE r \in UidPool \ used : \A x \in UidPool \ used : r <= x

RoomIdsInUse(S) ==
    DOMAIN S.rooms \cup {S.clients[w].roomId : w \in DOMAIN S.clients}

safeSend(S, ws, obj) ==
    IF readyState[ws] = "OPEN"
    THEN [S EXCEPT !.sent = Append(@, [to |-> ws, obj |-> obj])]
    ELSE S

\* queue.findIndex((q) => q.ws === ws): 0 stands for -1
findIndex(q, ws) ==
    IF \E k \in 1..Len(q) : q[k].ws = ws
    THEN CHOOSE k \in 1..Len(q) :
            /\ q[k].ws = ws
            /\ \A m \in 1..(k - 1) : q[m].ws # ws
    ELSE 0

\* queue.splice(idx, 1): nothing is removed when idx is past the end
splice(q, idx) ==
    IF idx \in 1..Len(q)
    THEN [k \in 1..(Len(q) - 1) |-> IF k < idx THEN q[k] ELSE q[k + 1]]
    ELSE q

\* (variant) the queue is left as it is
removeFromQueueNot(S, ws) == S

removeFromQueue(S, ws) ==
    LET idx == findIndex(S.queue, ws)
    IN  IF idx # 0 THEN [S EXCEPT !.queue = splice(@, idx)] ELSE S

MapDelete(m, k) == [x \in DOMAIN m \ {k} |-> m[x]]

MapSet(m, k, v) == [x \in DOMAIN m \cup {k} |-> IF x = k THEN v ELSE m[x]]

\* (variant) the room stays in the room table
leaveRoomKeepsRoom(S, ws) ==
    IF ws \notin DOMAIN S.clients \/ S.clients[ws].roomId = Null THEN S
    ELSE
    LET roomId == S.clients[ws].roomId
    IN  IF roomId \notin DOMAIN S.rooms
        THEN [S EXCEPT !.clients[ws].roomId = Null, !.clients[ws].state = "idle"]
        ELSE
        LET room == S.rooms[roomId]
            other == IF room.a = ws THEN room.b ELSE room.a
            S1 == IF readyState[other] = "OPEN"
                  THEN safeSend(
                         IF other \in DOMAIN S.clients
                         THEN [S EXCEPT !.clients[other].roomId = Null,
                                        !.clients[other].state = "idle"]
                         ELSE S,
                         other, [type |-> "partner_left"])
                  ELSE S
        IN  [S1 EXCEPT !.clients[ws].roomId = Null, !.clients[ws].state = "idle"]

\* (variant) the leaving client keeps its room reference
leaveRoomKeepsRef(S, ws) ==
    IF ws \notin DOMAIN S.clients \/ S.clients[ws].roomId = Null THEN S
    ELSE
    LET roomId == S.clients[ws].roomId
    IN  IF roomId \notin DOMAIN S.rooms
        THEN [S EXCEPT !.clients[ws].roomId = Null, !.clients[ws].state = "idle"]
        ELSE
        LET room == S.rooms[roomId]
            other == IF room.a = ws THEN room.b ELSE room.a
            S1 == IF readyState[other] = "OPEN"
                  THEN safeSend(
                         IF other \in DOMAIN S.clients
                         THEN [S EXCEPT !.clients[other].roomId = Null,
                                        !.clients[other].state = "idle"]
                         ELSE S,
                         other, [type |-> "partner_left"])
                  ELSE S
        IN  [S1 EXCEPT !.rooms = MapDelete(@, roomId)]

\* (variant) the open partner is notified, its record is not reset
leaveRoomForgetsOther(S, ws) ==
    IF ws \notin DOMAIN S.clients \/ S.clients[ws].roomId = Null THEN S
    ELSE
    LET roomId == S.clients[ws].roomId
    IN  IF roomId \notin DOMAIN S.rooms
        THEN [S EXCEPT !.clients[ws].roomId = Null, !.clients[ws].state = "idle"]
        ELSE
        LET room == S.rooms[roomId]
            other == IF room.a = ws THEN room.b ELSE room.a
            S1 == IF readyState[other] = "OPEN"
                  THEN safeSend(S, other, [type |-> "partner_left"])
                  ELSE S
            S2 == [S1 EXCEPT !.rooms = MapDelete(@, roomId)]
        IN  [S2 EXCEPT !.clients[ws].roomId = Null, !.clients[ws].state = "idle"]

leaveRoom(S, ws) ==
    IF ws \notin DOMAIN S.clients \/ S.clients[ws].roomId = Null THEN S
    ELSE
    LET roomId == S.clients[ws].roomId
    IN  IF roomId \notin DOMAIN S.rooms
        THEN [S EXCEPT !.clients[ws].roomId = Null, !.clients[ws].state = "idle"]
        ELSE
        LET room == S.rooms[roomId]
            other == IF room.a = ws THEN room.b ELSE room.a
            S1 == IF readyState[other] = "OPEN"
                  THEN safeSend(
                         IF other \in DOMAIN S.clients
                         THEN [S EXCEPT !.clients[other].roomId = Null,
                                        !.clients[other].state = "idle"]
                         ELSE S,
                         other, [type |-> "partner_left"])
                  ELSE S
            S2 == [S1 EXCEPT !.rooms = MapDelete(@, roomId)]
        IN  [S2 EXCEPT !.clients[ws].roomId = Null, !.clients[ws].state = "idle"]

\* (variant) "any" scores only when the other side is specific
matchScoreOneAny(p1, p2) ==
    LET g1 == OrElse(p1.gender, "any")
        g2 == OrElse(p2.gender, "any")
        l1 == OrElse(p1.level, "any")
        l2 == OrElse(p2.level, "any")
    IN    (IF g1 = g2 THEN 2 ELSE 0)
        + (IF l1 = l2 THEN 4 ELSE 0)
        + (IF (l1 = "any") # (l2 = "any") THEN 1 ELSE 0)
        + (IF (g1 = "any") # (g2 = "any") THEN 1 ELSE 0)

matchScore(p1, p2) ==
    LET g1 == OrElse(p1.gender, "any")
        g2 == OrElse(p2.gender, "any")
        l1 == OrElse(p1.level, "any")
        l2 == OrElse(p2.level, "any")
    IN    (IF g1 = g2 THEN 2 ELSE 0)
        + (IF l1 = l2 THEN 4 ELSE 0)
        + (IF l1 = "any" \/ l2 = "any" THEN 1 ELSE 0)
        + (IF g1 = "any" \/ g2 = "any" THEN 1 ELSE 0)

Min(a, b) == IF a < b THEN a ELSE b

\* --------------------------------------------- IEEE 754 double precision
\* The numbers of tryMatch are doubles that are finite and not negative. One
\* of them is a record [exp, sig]: sig is its 53-bit significand, leading bit
\* set, as four digits of radix 2^15, most significant first; its value is
\* the significand times 2^(exp - 52). Zero stands for 0. Whole numbers below
\* 2^53 are exact; "/" and "+" give the double nearest to the exact result,
\* the one with the even significand when two are equally near.
Radix == 2 ^ 15

Zero == [exp |-> 0 - 1023, sig |-> <<0, 0, 0, 0>>]

Zeros(k) == [i \in 1..k |-> 0]

\* The one element of a set {e : v \in {a}}: e for the value v of a, with a
\* worked out once however often e names it.
Only(S) == CHOOSE x \in S : TRUE

\* A natural number is the sequence of its digits of radix 2^15.
Norm(a) ==
    Only({LET nz == {k \in 1..Len(v) : v[k] # 0}
          IN  IF nz = {} THEN <<>>
              ELSE SubSeq(v, CHOOSE k \in nz : \A m \in nz : k <= m, Len(v))
          : v \in {a}})

Digits(n) == Norm(<<n \div (Radix * Radix), (n \div Radix) % Radix, n % Radix>>)

\* The number of binary digits of a.
BitLen(a) ==
    Only({IF v = <<>> THEN 0
          ELSE 15 * (Len(v) - 1) + CHOOSE k \in 1..15 : 2 ^ (k - 1) <= v[1] /\ v[1] < 2 ^ k
          : v \in {a}})

\* a * 2^s
Shl(a, s) ==
    Only({LET p == 2 ^ (t % 15)
              n == Len(v)
              wide == [k \in 1..(n + 1) |->
                          (IF k = 1 THEN 0 ELSE (v[k - 1] * p) % Radix)
                            + (IF k = n + 1 THEN 0 ELSE (v[k] * p) \div Radix)]
          IN  Norm(wide \o Zeros(t \div 15))
          : v \in {a}, t \in {s}})

\* a \div 2^s
Shr(a, s) ==
    Only({LET r == t % 15
              c == SubSeq(v, 1, Len(v) - t \div 15)
          IN  Norm([k \in 1..Len(c) |->
                      c[k] \div 2 ^ r
                        + (IF k = 1 THEN 0 ELSE (c[k - 1] % 2 ^ r) * 2 ^ (15 - r))])
          : v \in {a}, t \in {s}})

\* The binary digit of a that counts 2^p.
Bit(a, p) == (a[Len(a) - p \div 15] \div 2 ^ (p % 15)) % 2

\* a % 2^s = 0
LowZero(a, s) ==
    /\ \A k \in (Len(a) - s \div 15 + 1)..Len(a) : a[k] = 0
    /\ (s % 15 = 0 \/ a[Len(a) - s \div 15] % 2 ^ (s % 15) = 0)

\* The digits of a + b from digit k down, a and b of one length, after the
\* digits acc and the carry of the digits below.
RECURSIVE AddFrom(_, _, _, _, _)
AddFrom(a, b, k, carry, acc) ==
    IF k = 0 THEN <<carry>> \o acc
    ELSE Only({AddFrom(a, b, k - 1, s \div Radix, <<s % Radix>> \o acc)
               : s \in {a[k] + b[k] + carry}})

\* a + b
Sum(a, b) ==
    Only({LET n == IF Len(u) > Len(v) THEN Len(u) ELSE Len(v)
          IN  Norm(Only({AddFrom(p, q, n, 0, <<>>)
                         : p \in {Zeros(n - Len(u)) \o u}, q \in {Zeros(n - Len(v)) \o v}}))
          : u \in {a}, v \in {b}})

\* Long division of a by d, 0 < d < 2^16: the quotient, and whether a
\* remainder is left.
RECURSIVE DivFrom(_, _, _, _, _)
DivFrom(a, d, k, rem, acc) ==
    IF k > Len(a) THEN [quot |-> Norm(acc), inexact |-> rem # 0]
    ELSE Only({DivFrom(a, d, k + 1, r % d, q)
               : r \in {rem * Radix + a[k]}, q \in {Append(acc, (rem * Radix + a[k]) \div d)}})

\* The double nearest to a * 2^lsb for a of L binary digits, L > 53, or to a
\* number that lies above a * 2^lsb by less than 2^lsb (sticky; L >= 55 then).
RoundOff(a, L, lsb, sticky) ==
    LET s == L - 53
        rest == sticky \/ ~LowZero(a, s - 1)
    IN  Only({LET up == Bit(a, s - 1) = 1 /\ (rest \/ top[4] % 2 = 1)
              IN  Only({IF BitLen(m) = 54 THEN [exp |-> lsb + L, sig |-> Shr(m, 1)]
                        ELSE [exp |-> lsb + L - 1, sig |-> m]
                        : m \in {IF up THEN Sum(top, <<1>>) ELSE top}})
              : top \in {Shr(a, s)}})

\* The double nearest to a * 2^lsb, or to a number that lies above a * 2^lsb
\* by less than 2^lsb (sticky; a has 55 binary digits or more then).
RoundToDouble(a, lsb, sticky) ==
    Only({Only({IF L = 0 THEN Zero
                ELSE IF L <= 53 THEN [exp |-> lsb + L - 1, sig |-> Shl(v, 53 - L)]
                ELSE RoundOff(v, L, lsb, sticky)
                : L \in {BitLen(v)}})
          : v \in {a}})

\* The double that is the whole number n, 0 <= n < 2^31.
FromInt(n) == RoundToDouble(Digits(n), 0, FALSE)

\* x + y
FAdd(x, y) ==
    Only({IF u = Zero THEN v
          ELSE IF v = Zero THEN u
          ELSE
          LET lx == u.exp - 52
              ly == v.exp - 52
              lsb == IF lx < ly THEN lx ELSE ly
          IN  RoundToDouble(Sum(Shl(u.sig, lx - lsb), Shl(v.sig, ly - lsb)), lsb, FALSE)
          : u \in {x}, v \in {y}})

\* x / d for a whole number d, 0 < d <= 1000
FDiv(x, d) ==
    Only({IF u = Zero THEN Zero
          ELSE Only({RoundToDouble(q.quot, u.exp - 52 - 15, q.inexact)
                     : q \in {DivFrom(Shl(u.sig, 15), d, 1, 0, <<>>)}})
          : u \in {x}})

\* x > y
FGreater(x, y) ==
    Only({IF u.exp # v.exp THEN u.exp > v.exp
          ELSE IF u.sig[1] # v.sig[1] THEN u.sig[1] > v.sig[1]
          ELSE IF u.sig[2] # v.sig[2] THEN u.sig[2] > v.sig[2]
          ELSE IF u.sig[3] # v.sig[3] THEN u.sig[3] > v.sig[3]
          ELSE u.sig[4] > v.sig[4]
          : u \in {x}, v \in {y}})

\* Math.min(x, y)
FMin(x, y) == Only({IF FGreater(u, v) THEN v ELSE u : u \in {x}, v \in {y}})

\* Date.now() when it is read drift milliseconds after the handler started.
DateNow(drift) == now + drift

\* base + Math.min(10, (waitA + waitB) / 6) for two entries that were enqueued
\* msA and msB milliseconds before the two readings of the clock: waitA and
\* waitB are those times divided by 1000.
totalOf(base, msA, msB) ==
    Only({Only({FAdd(FromInt(base), waitingBonus)
                : waitingBonus \in {FMin(FromInt(10), FDiv(FAdd(waitA, waitB), 6))}})
          : waitA \in {FDiv(FromInt(msA), 1000)}, waitB \in {FDiv(FromInt(msB), 1000)}})

\* The waits, in milliseconds, of the entries of a drawn queue: none, one
\* millisecond, and LongWait steps and one millisecond.
WaitMs == {0, 1, StepMs * LongWait + 1}

\* totalOf, computed once for the waits that the specifications below reach:
\* whole steps up to MaxTime or a drawn wait, and the drift of the clock.
Totals ==
    LET ms == {w + d : w \in {StepMs * k : k \in 0..MaxTime} \cup WaitMs,
                       d \in 0..MaxDrift}
    IN  [k \in (0..8) \X ms \X ms |-> totalOf(k[1], k[2], k[3])] @@ <<>>

\* totalOf, looked up where it has been computed before.
totalFor(base, msA, msB) ==
    Only({IF <<base, msA, msB>> \in DOMAIN known
          THEN known[<<base, msA, msB>>]
          ELSE totalOf(base, msA, msB)
          : known \in {Totals}})

\* (variant) the waiting bonus is left out of the total
totalBaseOnly(A, B, nowA, nowB) == FromInt(matchScore(A.prefs, B.prefs))

\* The total of the pair A, B: nowA and nowB are the two readings of
\* Date.now(), never before the enqueue of the entry.
total(A, B, nowA, nowB) ==
    totalFor(matchScore(A.prefs, B.prefs), nowA - A.enqueuedAt, nowB - B.enqueuedAt)

\* The sequences of n readings of the clock: how far each reading is ahead
\* of the start of the handler, the clock moving on at most MaxDrift times.
Readings(n) ==
    { [k \in 1..n |-> Cardinality({m \in 1..MaxDrift : t[m] < k})] :
        t \in [1..MaxDrift -> 0..n] }

\* Readings(n) for every number of readings one call of tryMatch can take:
\* two for each pair of entries of the queue.
Clocks == [n \in 0..(NConn * (NConn - 1)) |-> Readings(n)]

\* The number of pairs i < j of q whose sockets are both open: the pairs
\* tryMatch evaluates, with two readings of the clock each.
Evaluated(q) ==
    LET open == Cardinality({k \in 1..Len(q) : readyState[q[k].ws] = "OPEN"})
    IN  (open * (open - 1)) \div 2

NoBest == [none |-> TRUE, i |-> 0, j |-> 0, total |-> Zero]

\* (variant) the inner loop starts at i instead of i + 1, and the clock is
\* as it was when the handler started
RECURSIVE bestPairFromI(_, _, _, _, _)
bestPairFromI(q, clk, i, j, best) ==
    IF i > Len(q) THEN best
    ELSE IF j > Len(q) THEN bestPairFromI(q, clk, i + 1, i + 1, best)
    ELSE IF readyState[q[i].ws] # "OPEN" \/ readyState[q[j].ws] # "OPEN"
         THEN bestPairFromI(q, clk, i, j + 1, best)
    ELSE Only({IF best.none \/ FGreater(t, best.total)
               THEN bestPairFromI(q, clk, i, j + 1,
                                  [none |-> FALSE, i |-> i, j |-> j, total |-> t])
               ELSE bestPairFromI(q, clk, i, j + 1, best)
               : t \in {total(q[i], q[j], DateNow(0), DateNow(0))}})

\* (variant) a pair whose desired genders differ, neither being "any", is
\* taken as incompatible and skipped
RECURSIVE bestPairCompatible(_, _, _, _, _)
bestPairCompatible(q, clk, i, j, best) ==
    IF i > Len(q) THEN best
    ELSE IF j > Len(q) THEN bestPairCompatible(q, clk, i + 1, i + 2, best)
    ELSE IF readyState[q[i].ws] # "OPEN" \/ readyState[q[j].ws] # "OPEN"
         THEN bestPairCompatible(q, clk, i, j + 1, best)
    ELSE IF /\ q[i].prefs.gender # q[j].prefs.gender
            /\ q[i].prefs.gender # "any"
            /\ q[j].prefs.gender # "any"
         THEN bestPairCompatible(q, clk, i, j + 1, best)
    ELSE Only({IF best.none \/ FGreater(t, best.total)
               THEN bestPairCompatible(q, Tail(Tail(clk)), i, j + 1,
                             [none |-> FALSE, i |-> i, j |-> j, total |-> t])
               ELSE bestPairCompatible(q, Tail(Tail(clk)), i, j + 1, best)
               : t \in {total(q[i], q[j], DateNow(clk[1]), DateNow(clk[2]))}})

\* (variant) a pair whose total equals the best total replaces the best pair
RECURSIVE bestPairLastWins(_, _, _, _, _)
bestPairLastWins(q, clk, i, j, best) ==
    IF i > Len(q) THEN best
    ELSE IF j > Len(q) THEN bestPairLastWins(q, clk, i + 1, i + 2, best)
    ELSE IF readyState[q[i].ws] # "OPEN" \/ readyState[q[j].ws] # "OPEN"
         THEN bestPairLastWins(q, clk, i, j + 1, best)
    ELSE Only({IF best.none \/ ~FGreater(best.total, t)
               THEN bestPairLastWins(q, Tail(Tail(clk)), i, j + 1,
                             [none |-> FALSE, i |-> i, j |-> j, total |-> t])
               ELSE bestPairLastWins(q, Tail(Tail(clk)), i, j + 1, best)
               : t \in {total(q[i], q[j], DateNow(clk[1]), DateNow(clk[2]))}})

\* The two nested loops of tryMatch, from position (i, j) on; clk holds the
\* readings of the clock that are still to come.
RECURSIVE bestPair(_, _, _, _, _)
bestPair(q, clk, i, j, best) ==
    IF i > Len(q) THEN best
    ELSE IF j > Len(q) THEN bestPair(q, clk, i + 1, i + 2, best)
    ELSE IF readyState[q[i].ws] # "OPEN" \/ readyState[q[j].ws] # "OPEN"
         THEN bestPair(q, clk, i, j + 1, best)
    ELSE Only({IF best.none \/ FGreater(t, best.total)
               THEN bestPair(q, Tail(Tail(clk)), i, j + 1,
                             [none |-> FALSE, i |-> i, j |-> j, total |-> t])
               ELSE bestPair(q, Tail(Tail(clk)), i, j + 1, best)
               : t \in {total(q[i], q[j], DateNow(clk[1]), DateNow(clk[2]))}})

\* (variant) an entry is removed by moving the last entry to its place
removePairSwapLast(q, i, j) ==
    LET swapOut(a, k) == [m \in 1..(Len(a) - 1) |-> IF m = k THEN a[Len(a)] ELSE a[m]]
    IN  swapOut(swapOut(q, j), i)

\* queue.splice(best.j, 1); queue.splice(best.i, 1)
removePair(q, i, j) == splice(splice(q, j), i)

tryMatch(S, clk) ==
    IF Len(S.queue) < 2 THEN S
    ELSE
    Only({
        IF best.none THEN S
        ELSE
        LET A == S.queue[best.i]
            B == S.queue[best.j]
            roomId == uid(RoomIdsInUse(S))
            S1 == [S EXCEPT !.queue = removePair(@, best.i, best.j),
                            !.rooms = MapSet(@, roomId, [a |-> A.ws, b |-> B.ws])]
            S2 == IF A.ws \in DOMAIN S1.clients
                  THEN [S1 EXCEPT !.clients[A.ws].roomId = roomId,
                                  !.clients[A.ws].state = "chat"]
                  ELSE S1
            S3 == IF B.ws \in DOMAIN S2.clients
                  THEN [S2 EXCEPT !.clients[B.ws].roomId = roomId,
                                  !.clients[B.ws].state = "chat"]
                  ELSE S2
            matched == [type |-> "matched", roomId |-> roomId]
        IN  safeSend(safeSend(S3, A.ws, matched), B.ws, matched)
        : best \in {bestPair(S.queue, clk, 1, 2, NoBest)}})

\* (variant) the cleaning loop stops at the first open entry it meets,
\* coming from the end of the queue
RECURSIVE cleanDeadTail(_)
cleanDeadTail(S) ==
    IF S.queue = <<>> \/ readyState[S.queue[Len(S.queue)].ws] = "OPEN" THEN S
    ELSE cleanDeadTail([S EXCEPT !.queue = SubSeq(@, 1, Len(@) - 1)])

\* The cleaning loop of the interval callback.
cleanDead(S) ==
    [S EXCEPT !.queue = SelectSeq(@, LAMBDA e : readyState[e.ws] = "OPEN")]

\* ------------------------------------------------------ inbound payloads
\* A payload is the text of one inbound frame; JSONparse gives what
\* JSON.parse(String(raw)) gives: a failure, null, a value that is not an
\* object, or an object with its fields (Undefined for a field it lacks).
Payload(kind, type, hasPrefs, gender, level, text) ==
    [kind |-> kind, type |-> type, hasPrefs |-> hasPrefs,
     gender |-> gender, level |-> level, text |-> text]

Obj(type, hasPrefs, gender, level, text) ==
    Payload("object", type, hasPrefs, gender, level, text)

\* The requests the sockets send in the behaviours of Spec.
FindPayloads == { Obj("find", TRUE, "male", Undefined, Undefined) }

CancelPayloads == { Obj("cancel", FALSE, Undefined, Undefined, Undefined) }

ChatPayloads == { Obj("chat", FALSE, Undefined, Undefined, "hi") }

\* More find and chat requests, which the handlers are applied to in every
\* reachable state: prefs absent, partial, empty or complete; text a string,
\* empty or absent.
FindInputs ==
    FindPayloads \cup
    { Obj("find", FALSE, Undefined, Undefined, Undefined),
      Obj("find", TRUE, "", "beginner", Undefined),
      Obj("find", TRUE, "female", "advanced", Undefined) }

ChatInputs ==
    ChatPayloads \cup
    { Obj("chat", FALSE, Undefined, Undefined, t) : t \in {"", Undefined} }

\* A chat request whose text is no string and cannot be made one.
NoStringPayloads == { Obj("chat", FALSE, Undefined, Undefined, NoString) }

LeavePayloads == { Obj("leave", FALSE, Undefined, Undefined, Undefined) }

GarbagePayloads ==
    { Payload("garbage", Undefined, FALSE, Undefined, Undefined, Undefined) }

NullPayloads ==
    { Payload("null", Undefined, FALSE, Undefined, Undefined, Undefined) }

UnknownPayloads ==
    { Payload("scalar", Undefined, FALSE, Undefined, Undefined, Undefined),
      Obj("ping", FALSE, Undefined, Undefined, Undefined) }

JSONparse(raw) ==
    IF raw.kind = "garbage" THEN [ok |-> FALSE, value |-> raw]
    ELSE [ok |-> TRUE, value |-> raw]

\* msg.type: reading a property of null throws, of a scalar gives undefined
ThrowsOnType(msg) == msg.kind = "null"

TypeOf(msg) == IF msg.kind = "object" THEN msg.type ELSE Undefined

\* { gender: msg.prefs?.gender || "any", level: msg.prefs?.level || "any" }
prefsOf(msg) ==
    [gender |-> OrElse(IF msg.hasPrefs THEN msg.gender ELSE Undefined, "any"),
     level  |-> OrElse(IF msg.hasPrefs THEN msg.level ELSE Undefined, "any")]

\* String(msg.text || ""): String() throws a TypeError when it is given an
\* object that it cannot convert to a primitive value.
ThrowsOnText(msg) == OrElse(msg.text, "") = NoString

textOf(msg) == OrElse(msg.text, "")

\* -------------------------------------------------------------- handlers
\* (variant) the find branch does not leave the room of the sender
enqueueKeepsRoom(S, ws, msg) ==
    LET S1 == removeFromQueue(S, ws)
        prefs == prefsOf(msg)
        S2 == [S1 EXCEPT !.clients[ws].prefs = prefs,
                         !.clients[ws].state = "searching",
                         !.queue = Append(@, [ws |-> ws, prefs |-> prefs,
                                              enqueuedAt |-> now])]
    IN  safeSend(S2, ws, [type |-> "searching"])

\* The find branch up to the acknowledgment, before tryMatch is called.
enqueue(S, ws, msg) ==
    LET S1 == removeFromQueue(leaveRoom(S, ws), ws)
        prefs == prefsOf(msg)
        S2 == [S1 EXCEPT !.clients[ws].prefs = prefs,
                         !.clients[ws].state = "searching",
                         !.queue = Append(@, [ws |-> ws, prefs |-> prefs,
                                              enqueuedAt |-> now])]
    IN  safeSend(S2, ws, [type |-> "searching"])

\* (variant) the acknowledgment is sent after the match attempt
onFindAckLast(S, ws, msg, clk) ==
    LET S1 == removeFromQueue(leaveRoom(S, ws), ws)
        prefs == prefsOf(msg)
        S2 == [S1 EXCEPT !.clients[ws].prefs = prefs,
                         !.clients[ws].state = "searching",
                         !.queue = Append(@, [ws |-> ws, prefs |-> prefs,
                                              enqueuedAt |-> now])]
    IN  safeSend(tryMatch(S2, clk), ws, [type |-> "searching"])

\* (variant) the find branch leaves the match attempt to the interval callback
onFindNoAttempt(S, ws, msg, clk) == enqueue(S, ws, msg)

onFind(S, ws, msg, clk) == tryMatch(enqueue(S, ws, msg), clk)

onCancel(S, ws) ==
    LET S1 == removeFromQueue(S, ws)
    IN  safeSend([S1 EXCEPT !.clients[ws].state = "idle"], ws, [type |-> "canceled"])

\* (variant) the sender is told that the partner left, the room is kept
onChatNoLeave(S, ws, msg) ==
    IF S.clients[ws].roomId = Null THEN S
    ELSE IF S.clients[ws].roomId \notin DOMAIN S.rooms THEN S
    ELSE
    LET room == S.rooms[S.clients[ws].roomId]
        other == IF room.a = ws THEN room.b ELSE room.a
    IN  IF readyState[other] # "OPEN"
        THEN safeSend(S, ws, [type |-> "partner_left"])
        ELSE IF ThrowsOnText(msg) THEN [S EXCEPT !.threw = TRUE]
        ELSE safeSend(S, other, [type |-> "chat", text |-> textOf(msg)])

onChat(S, ws, msg) ==
    IF S.clients[ws].roomId = Null THEN S
    ELSE IF S.clients[ws].roomId \notin DOMAIN S.rooms THEN S
    ELSE
    LET room == S.rooms[S.clients[ws].roomId]
        other == IF room.a = ws THEN room.b ELSE room.a
    IN  IF readyState[other] # "OPEN"
        THEN leaveRoom(safeSend(S, ws, [type |-> "partner_left"]), ws)
        ELSE IF ThrowsOnText(msg) THEN [S EXCEPT !.threw = TRUE]
        ELSE safeSend(S, other, [type |-> "chat", text |-> textOf(msg)])

onLeave(S, ws) ==
    LET S1 == removeFromQueue(leaveRoom(S, ws), ws)
    IN  safeSend([S1 EXCEPT !.clients[ws].state = "idle"], ws, [type |-> "left"])

\* The body of ws.on("message") once msg.type can be read; clk holds the
\* readings of the clock in the match attempt of a find.
dispatch(S, ws, msg, clk) ==
    CASE TypeOf(msg) = "find"   -> onFind(S, ws, msg, clk)
      [] TypeOf(msg) = "cancel" -> onCancel(S, ws)
      [] TypeOf(msg) = "chat"   -> onChat(S, ws, msg)
      [] TypeOf(msg) = "leave"  -> onLeave(S, ws)
      [] OTHER                  -> S

\* (variant) the room of the closed socket is not left
onCloseNoLeave(S, ws) ==
    LET S1 == removeFromQueue(S, ws)
    IN  [S1 EXCEPT !.clients = MapDelete(@, ws)]

onClose(S, ws) ==
    LET S1 == leaveRoom(removeFromQueue(S, ws), ws)
    IN  [S1 EXCEPT !.clients = MapDelete(@, ws)]

onConnection(S, ws) ==
    LET id == ws
        S1 == [S EXCEPT !.clients = MapSet(@, ws,
                   [id |-> id, roomId |-> Null, state |-> "idle",
                    prefs |-> [gender |-> "any", level |-> "any"]])]
    IN  safeSend(S1, ws, [type |-> "hello", id |-> id])

onTick(S, clk) == tryMatch(cleanDead(S), clk)

\* The readings of the clock a match attempt can get: two for each pair it
\* evaluates, in the find branch, in the interval callback, and none in the
\* other branches of the message handler.
FindClocks(S, ws, msg) == Clocks[2 * Evaluated(enqueue(S, ws, msg).queue)]

TickClocks(S) == Clocks[2 * Evaluated(cleanDead(S).queue)]

MessageClocks(S, ws, msg) ==
    IF TypeOf(msg) = "find" THEN FindClocks(S, ws, msg) ELSE {<<>>}

\* ---------------------------------------------------------------- actions
\* Whether the last message addressed to each connection, after the sends
\* of out, is "searching".
Deliver(l, out) ==
    [c \in Conns |->
        IF \E k \in 1..Len(out) : out[k].to = c
        THEN out[CHOOSE k \in 1..Len(out) :
                    /\ out[k].to = c
                    /\ \A m \in (k + 1)..Len(out) : out[m].to # c].obj.type
                = "searching"
        ELSE l[c]]

\* The oldest enqueuedAt of q, the origin time is counted from.
Origin(q) ==
    IF q = <<>> THEN now
    ELSE CHOOSE t \in {q[k].enqueuedAt : k \in 1..Len(q)} :
            \A k \in 1..Len(q) : t <= q[k].enqueuedAt

Rebase(q) == [k \in 1..Len(q) |-> [q[k] EXCEPT !.enqueuedAt = @ - Origin(q)]]

Commit(T) ==
    /\ clients' = T.clients
    /\ queue' = Rebase(T.queue)
    /\ now' = now - Origin(T.queue)
    /\ rooms' = T.rooms
    /\ awaiting' = Deliver(awaiting, T.sent)

Init ==
    /\ readyState = [c \in Conns |-> "NONE"]
    /\ clients = <<>>
    /\ queue = <<>>
    /\ rooms = <<>>
    /\ now = 0
    /\ awaiting = [c \in Conns |-> FALSE]
    /\ crashed = FALSE

\* An uncaught exception, or an 'error' event nobody listens to, ends the
\* process: its memory and its sockets are gone.
Exit ==
    /\ crashed' = TRUE
    /\ readyState' = [c \in Conns |-> IF readyState[c] = "NONE" THEN "NONE" ELSE "CLOSED"]
    /\ clients' = <<>>
    /\ queue' = <<>>
    /\ rooms' = <<>>
    /\ now' = 0
    /\ awaiting' = [c \in Conns |-> FALSE]

OpenSockets == {c \in Conns : readyState[c] = "OPEN"}

\* wss.on("connection"): a new socket is accepted, its transport open.
Connection(ws) ==
    /\ ~crashed
    /\ readyState[ws] = "NONE"
    /\ \A w \in 1..(ws - 1) : readyState[w] # "NONE"
    /\ Cardinality(OpenSockets) < MaxOpen
    /\ readyState' = [readyState EXCEPT ![ws] = "OPEN"]
    /\ LET S == onConnection(Store, ws)
       IN  Commit([S EXCEPT !.sent = <<[to |-> ws, obj |-> [type |-> "hello", id |-> ws]]>>])
    /\ UNCHANGED crashed

\* ws.on("message") for one payload of one socket.
OnMessage(ws, raw) ==
    /\ ~crashed
    /\ readyState[ws] \in {"OPEN", "CLOSING"}
    /\ LET parsed == JSONparse(raw)
       IN  IF ~parsed.ok \/ ws \notin DOMAIN clients
           THEN Commit(Store) /\ UNCHANGED <<readyState, crashed>>
           ELSE IF ThrowsOnType(parsed.value) THEN Exit
           ELSE \E clk \in MessageClocks(Store, ws, parsed.value) :
                   \E T \in {dispatch(Store, ws, parsed.value, clk)} :
                      IF T.threw THEN Exit
                      ELSE Commit(T) /\ UNCHANGED <<readyState, crashed>>

Find(ws, raw) == raw \in FindPayloads /\ OnMessage(ws, raw)

Cancel(ws, raw) == raw \in CancelPayloads /\ OnMessage(ws, raw)

Chat(ws, raw) == raw \in ChatPayloads /\ OnMessage(ws, raw)

NoStringChat(ws, raw) == raw \in NoStringPayloads /\ OnMessage(ws, raw)

Leave(ws, raw) == raw \in LeavePayloads /\ OnMessage(ws, raw)

Garbage(ws, raw) == raw \in GarbagePayloads /\ OnMessage(ws, raw)

NullMessage(ws, raw) == raw \in NullPayloads /\ OnMessage(ws, raw)

Unknown(ws, raw) == raw \in UnknownPayloads /\ OnMessage(ws, raw)

\* The transport of a socket stops being open; its close event is pending.
TransportDown(ws) ==
    /\ ~crashed
    /\ readyState[ws] = "OPEN"
    /\ readyState' = [readyState EXCEPT ![ws] = "CLOSING"]
    /\ awaiting' = [awaiting EXCEPT ![ws] = FALSE]
    /\ UNCHANGED <<clients, queue, rooms, now, crashed>>

\* A frame that breaks the protocol (not masked, text that is not UTF-8)
\* arrives on an accepted socket: ws emits 'error' on the socket, server.js
\* registers no listener for it, and the event is thrown.
SocketError(ws) ==
    /\ ~crashed
    /\ readyState[ws] \in {"OPEN", "CLOSING"}
    /\ Exit

\* ws.on("close")
Close(ws) ==
    /\ ~crashed
    /\ readyState[ws] = "CLOSING"
    /\ readyState' = [readyState EXCEPT ![ws] = "CLOSED"]
    /\ LET T == onClose(Store, ws)
       IN  /\ clients' = T.clients
           /\ queue' = Rebase(T.queue)
           /\ now' = now - Origin(T.queue)
           /\ rooms' = T.rooms
           /\ awaiting' = [Deliver(awaiting, T.sent) EXCEPT ![ws] = FALSE]
    /\ UNCHANGED crashed

\* The setInterval callback.
Tick ==
    /\ ~crashed
    /\ \E clk \in TickClocks(Store) : \E T \in {onTick(Store, clk)} : Commit(T)
    /\ UNCHANGED <<readyState, crashed>>

\* Date.now() moves on while an entry waits.
Advance ==
    /\ ~crashed
    /\ queue # <<>>
    /\ now + StepMs <= StepMs * MaxTime
    /\ now' = now + StepMs
    /\ UNCHANGED <<readyState, clients, queue, rooms, awaiting, crashed>>

Payloads ==
    FindPayloads \cup CancelPayloads \cup ChatPayloads \cup NoStringPayloads
        \cup LeavePayloads \cup GarbagePayloads \cup NullPayloads
        \cup UnknownPayloads

Next ==
    \/ \E ws \in Conns : Connection(ws)
    \/ \E ws \in Conns, raw \in FindPayloads : Find(ws, raw)
    \/ \E ws \in Conns, raw \in CancelPayloads : Cancel(ws, raw)
    \/ \E ws \in Conns, raw \in ChatPayloads : Chat(ws, raw)
    \/ \E ws \in Conns, raw \in NoStringPayloads : NoStringChat(ws, raw)
    \/ \E ws \in Conns, raw \in LeavePayloads : Leave(ws, raw)
    \/ \E ws \in Conns, raw \in GarbagePayloads : Garbage(ws, raw)
    \/ \E ws \in Conns, raw \in NullPayloads : NullMessage(ws, raw)
    \/ \E ws \in Conns, raw \in UnknownPayloads : Unknown(ws, raw)
    \/ \E ws \in Conns : TransportDown(ws)
    \/ \E ws \in Conns : SocketError(ws)
    \/ \E ws \in Conns : Close(ws)
    \/ Tick
    \/ Advance

Spec == Init /\ [][Next]_vars

\* ------------------------------------------- one call of tryMatch, alone
\* The states tryMatch can be called in, as far as tryMatch reads them: the
\* queue holds the sockets 1..n in the order of their find requests (so the
\* enqueuedAt are in ascending order), each with preferences of PrefSet, a
\* wait of WaitMs and a transport that is open or not; nobody is in a room.
PrefSet ==
    { [gender |-> "any", level |-> "any"],
      [gender |-> "male", level |-> "beginner"],
      [gender |-> "female", level |-> "advanced"] }

DrawnQueue(P, W) ==
    /\ \E n \in 0..MaxDrawn :
          \E ps \in [1..n -> P], wt \in [1..n -> W],
             rs \in [1..n -> {"OPEN", "CLOSING"}] :
             /\ \A k \in 1..(n - 1) : wt[k] >= wt[k + 1]
             /\ now = (IF n = 0 THEN 0 ELSE wt[1])
             /\ queue = [k \in 1..n |->
                           [ws |-> k, prefs |-> ps[k], enqueuedAt |-> now - wt[k]]]
             /\ readyState = [c \in Conns |-> IF c <= n THEN rs[c] ELSE "NONE"]
             /\ clients = [c \in 1..n |->
                             [id |-> c, roomId |-> Null, state |-> "searching",
                              prefs |-> ps[c]]]
             /\ awaiting = [c \in Conns |-> c <= n /\ rs[c] = "OPEN"]
    /\ rooms = <<>>
    /\ crashed = FALSE

MatchInit == DrawnQueue(PrefSet, WaitMs)

\* tryMatch(), called on the state as it is.
MatchAttempt ==
    /\ ~crashed
    /\ \E clk \in Clocks[2 * Evaluated(queue)] : Commit(tryMatch(Store, clk))
    /\ UNCHANGED <<readyState, crashed>>

MatchNext == MatchAttempt

MatchSpec == MatchInit /\ [][MatchNext]_vars

\* ------------------------------------- the interval callback, on its own
\* The interval callback running every 500 ms on a queue as drawn above: the
\* timer fires again and again for as long as the process lives, which is weak
\* fairness of Tick.
TickPrefs ==
    { [gender |-> "male", level |-> "beginner"],
      [gender |-> "female", level |-> "advanced"] }

TickWaits == {0, StepMs * LongWait + 1}

TickInit == DrawnQueue(TickPrefs, TickWaits)

TickNext == Tick

TickSpec == TickInit /\ [][TickNext]_vars /\ WF_vars(Tick)

\* ------------------------------------------------------------ vocabulary
InQueue(c) == \E k \in 1..Len(queue) : queue[k].ws = c

InRoom(c) == \E r \in DOMAIN rooms : rooms[r].a = c \/ rooms[r].b = c

TypeOK ==
    /\ readyState \in [Conns -> {"NONE", "OPEN", "CLOSING", "CLOSED"}]
    /\ DOMAIN clients \subseteq Conns
    /\ \A c \in DOMAIN clients : clients[c].state \in {"idle", "searching", "chat"}
    /\ now \in 0..(StepMs * (MaxTime + LongWait) + 1)
    /\ crashed \in BOOLEAN

Members(r) == {rooms[r].a, rooms[r].b}

RoomsOf(c) == {r \in DOMAIN rooms : c \in Members(r)}

EntriesOf(c) == {k \in 1..Len(queue) : queue[k].ws = c}

Message(to, obj) == [to |-> to, obj |-> obj]

\* The sockets whose message handler can run and finds a client record.
Registered == {c \in DOMAIN clients : readyState[c] \in {"OPEN", "CLOSING"}}

Partner(c) == CHOOSE d \in Conns : \E r \in DOMAIN rooms : Members(r) = {c, d}

\* What the find branch, given the request raw of ws, and the interval
\* callback can do in the current state: one outcome for each sequence of
\* readings of the clock that their match attempt can get.
FindOutcomes(ws, raw) ==
    {onFind(Store, ws, raw, clk) : clk \in FindClocks(Store, ws, raw)}

TickOutcomes == {onTick(Store, clk) : clk \in TickClocks(Store)}

\* ----------------------------------------------------------------- claims
\* A claim about what a handler does is stated of every reachable state and of
\* every request the handler can be given in it: T is the state the handler
\* returns and T.sent the messages it sends, in order.

\* C1: in every reachable state no connection both has an entry in the
\* waiting queue and is a member of a room of the room table.
C1_PoolRoomDisjoint == \A c \in Conns : ~(InQueue(c) /\ InRoom(c))

\* A room member whose partner is open sends find: the partner is told, the
\* sender is acknowledged and waits in the queue, out of the room.
C1_Witness ==
    \E c \in Registered, raw \in FindPayloads :
        /\ InRoom(c)
        /\ readyState[c] = "OPEN"
        /\ readyState[Partner(c)] = "OPEN"
        /\ \A T \in FindOutcomes(c, raw) :
               /\ T.sent = <<Message(Partner(c), [type |-> "partner_left"]),
                             Message(c, [type |-> "searching"])>>
               /\ \E k \in 1..Len(T.queue) : T.queue[k].ws = c
               /\ T.rooms = <<>>

\* C2: in every reachable state each connection has at most one entry in the
\* waiting queue, also after repeated find requests.
C2_OneEntry == \A c \in Conns : Cardinality(EntriesOf(c)) <= 1

\* A socket that waits sends find again, later: its entry is replaced.
C2_Witness ==
    \E c \in Registered, raw \in FindPayloads :
        /\ queue = <<[ws |-> c, prefs |-> clients[c].prefs, enqueuedAt |-> 0]>>
        /\ now > 0
        /\ \A T \in FindOutcomes(c, raw) :
               T.queue = <<[ws |-> c, prefs |-> prefsOf(raw), enqueuedAt |-> now]>>

\* C3: every room has two members that are distinct connections, and every
\* connection is a member of at most one room.
C3_Rooms ==
    /\ \A r \in DOMAIN rooms :
          /\ rooms[r].a \in Conns
          /\ rooms[r].b \in Conns
          /\ rooms[r].a # rooms[r].b
    /\ \A c \in Conns : Cardinality(RoomsOf(c)) <= 1

\* A room of two chatting sockets, made while a third socket's entry waits.
C3_Witness ==
    \E r \in DOMAIN rooms :
        /\ clients[rooms[r].a].roomId = r
        /\ clients[rooms[r].b].roomId = r
        /\ clients[rooms[r].a].state = "chat"
        /\ clients[rooms[r].b].state = "chat"
        /\ Len(queue) = 1
        /\ queue[1].ws \notin Members(r)

\* What one call of tryMatch may do to the state S it is given, T being the
\* state it returns: nothing, or one new room whose two members' entries, and
\* no other, left the queue.
MatchFrame(S, T) ==
    \/ /\ T.queue = S.queue
       /\ T.rooms = S.rooms
       /\ T.clients = S.clients
       /\ T.sent = S.sent
    \/ \E r \in DOMAIN T.rooms \ DOMAIN S.rooms :
          /\ DOMAIN T.rooms = DOMAIN S.rooms \cup {r}
          /\ \A x \in DOMAIN S.rooms : T.rooms[x] = S.rooms[x]
          /\ Len(T.queue) = Len(S.queue) - 2
          /\ \E i, j \in 1..Len(S.queue) :
                /\ i < j
                /\ S.queue[i].ws = T.rooms[r].a
                /\ S.queue[j].ws = T.rooms[r].b
                /\ T.queue = [k \in 1..(Len(S.queue) - 2) |->
                                 IF k < i THEN S.queue[k]
                                 ELSE IF k < j - 1 THEN S.queue[k + 1]
                                 ELSE S.queue[k + 2]]

\* C4: one match attempt, called from a find or from the interval callback,
\* makes at most one room; when it makes one, exactly the two entries of the
\* room's members leave the queue and the other entries keep their order;
\* when it makes none, queue, room table and client records are unchanged.
C4_MatchFrame ==
    /\ \A ws \in Registered, raw \in FindPayloads :
          \A T \in FindOutcomes(ws, raw) :
             MatchFrame(enqueue(Store, ws, raw), T)
    /\ \A T \in TickOutcomes :
          MatchFrame(cleanDead(Store), T)

\* An open entry and, behind it, two entries whose sockets are not open wait;
\* the find of a fourth socket makes a room out of the first and the fourth
\* entry and leaves the second and the third, in that order.
C4_Witness ==
    \E B \in Registered, raw \in FindPayloads :
        /\ readyState[B] = "OPEN"
        /\ ~InQueue(B)
        /\ Len(queue) = 3
        /\ readyState[queue[1].ws] = "OPEN"
        /\ readyState[queue[2].ws] = "CLOSING"
        /\ readyState[queue[3].ws] = "CLOSING"
        /\ \A T \in FindOutcomes(B, raw) :
               /\ T.queue = <<queue[2], queue[3]>>
               /\ \E r \in DOMAIN T.rooms \ DOMAIN rooms :
                     /\ T.rooms[r] = [a |-> queue[1].ws, b |-> B]
                     /\ DOMAIN T.rooms = DOMAIN rooms \cup {r}

\* C5 (as claimed): a cancel from a connection that is not searching only
\* sends 'canceled': client records, queue and room table stay as they are.
C5_CancelNoOp ==
    [][ \A ws \in Conns, raw \in CancelPayloads :
            ( /\ Cancel(ws, raw)
              /\ readyState[ws] = "OPEN"
              /\ clients[ws].state # "searching" )
            => /\ onCancel(Store, ws).sent = <<Message(ws, [type |-> "canceled"])>>
               /\ UNCHANGED <<clients, queue, rooms>> ]_vars

\* C6 (as claimed): a payload that is not a recognized request is handled
\* without a fatal error, sends nothing and changes nothing.
C6_Discarded ==
    [][ \A ws \in Conns,
           raw \in GarbagePayloads \cup NullPayloads \cup UnknownPayloads :
            OnMessage(ws, raw)
            => /\ ~crashed'
               /\ UNCHANGED <<readyState, clients, queue, rooms>>
               /\ (JSONparse(raw).ok /\ ws \in DOMAIN clients)
                     => dispatch(Store, ws, JSONparse(raw).value, <<>>).sent = <<>> ]_vars

\* C7: when the close event of B is handled, from any state of B, B has no
\* queue entry, no room holds B and B has no client record; if B was in a room
\* with A and A's transport is open, A is sent one partner_left, is idle and
\* has no room reference.
C7_Close ==
    \A B \in Conns :
        readyState[B] = "CLOSING" =>
            LET T == onClose(Store, B)
            IN  /\ \A k \in 1..Len(T.queue) : T.queue[k].ws # B
                /\ \A r \in DOMAIN T.rooms : T.rooms[r].a # B /\ T.rooms[r].b # B
                /\ B \notin DOMAIN T.clients
                /\ \A A \in Conns \ {B} :
                      ( /\ \E r \in DOMAIN rooms : Members(r) = {A, B}
                        /\ readyState[A] = "OPEN" )
                      => /\ T.sent = <<Message(A, [type |-> "partner_left"])>>
                         /\ A \in DOMAIN T.clients
                         /\ T.clients[A].state = "idle"
                         /\ T.clients[A].roomId = Null

\* B's close is pending while it chats with A, whose transport is open: the
\* close handler removes the room and tells A.
C7_Witness ==
    \E A, B \in Conns :
        /\ readyState[B] = "CLOSING"
        /\ readyState[A] = "OPEN"
        /\ \E r \in DOMAIN rooms : Members(r) = {A, B}
        /\ clients[A].state = "chat"
        /\ clients[B].state = "chat"
        /\ LET T == onClose(Store, B)
           IN  /\ T.rooms = <<>>
               /\ T.sent = <<Message(A, [type |-> "partner_left"])>>
               /\ DOMAIN T.clients = DOMAIN clients \ {B}

\* C8: when B's find is handled while A's entry is the only one in the queue
\* and both transports are open, the last message A was sent is 'searching',
\* B is sent 'searching' and then both are sent 'matched' with one roomId;
\* afterwards the queue is empty and both are chatting in that room.
C8_FindFind ==
    \A A, B \in Conns, raw \in FindInputs :
        ( /\ A # B
          /\ Len(queue) = 1
          /\ queue[1].ws = A
          /\ readyState[A] = "OPEN"
          /\ readyState[B] = "OPEN" )
        => /\ awaiting[A]
           /\ \A T \in FindOutcomes(B, raw) :
                  \E r \in DOMAIN T.rooms :
                     /\ SelectSeq(T.sent, LAMBDA m : m.to \in {A, B})
                          = <<Message(B, [type |-> "searching"]),
                              Message(A, [type |-> "matched", roomId |-> r]),
                              Message(B, [type |-> "matched", roomId |-> r])>>
                     /\ T.queue = <<>>
                     /\ {T.rooms[r].a, T.rooms[r].b} = {A, B}
                     /\ T.clients[A].state = "chat"
                     /\ T.clients[B].state = "chat"
                     /\ T.clients[A].roomId = r
                     /\ T.clients[B].roomId = r

\* A waits alone, acknowledged, and B, idle and open, can send its find.
C8_Witness ==
    \E A, B \in Conns :
        /\ A # B
        /\ Len(queue) = 1
        /\ queue[1].ws = A
        /\ readyState[A] = "OPEN"
        /\ readyState[B] = "OPEN"
        /\ awaiting[A]
        /\ clients[A].state = "searching"
        /\ clients[B].state = "idle"
        /\ \A raw \in FindPayloads :
              \A T \in FindOutcomes(B, raw) :
                 Len(T.sent) = 3

\* C9: leaveRoom is idempotent: in every reachable state and for every
\* connection, a second call right after the first changes neither client
\* records, queue nor room table, and sends nothing.
C9_LeaveRoomIdempotent ==
    \A c \in Conns :
        LET S1 == leaveRoom(Store, c)
            S2 == leaveRoom(S1, c)
        IN  /\ S2.clients = S1.clients
            /\ S2.queue = S1.queue
            /\ S2.rooms = S1.rooms
            /\ S2.sent = S1.sent

\* A state in which the first call tears a room down and tells the partner.
C9_Witness ==
    \E c \in DOMAIN clients :
        /\ InRoom(c)
        /\ readyState[Partner(c)] = "OPEN"
        /\ leaveRoom(Store, c).sent = <<Message(Partner(c), [type |-> "partner_left"])>>
        /\ leaveRoom(Store, c).rooms = <<>>
        /\ leaveRoom(Store, c).clients # clients

\* The text a chat request asks to forward: its text field, empty if absent.
TextAsked(raw) == IF raw.text = Undefined THEN "" ELSE raw.text

\* C10 (as claimed): a chat from a room member whose partner's transport is
\* open is handled without an exception, sends the partner one chat message
\* with the text, sends the sender nothing and leaves client records, queue
\* and room table as they are; a chat from a connection without a room
\* reference sends nothing and changes nothing.
C10_Chat ==
    \A ws \in Registered, raw \in ChatInputs \cup NoStringPayloads :
        LET T == dispatch(Store, ws, JSONparse(raw).value, <<>>)
        IN  /\ (InRoom(ws) /\ readyState[Partner(ws)] = "OPEN")
                => /\ ~T.threw
                   /\ T.sent = <<Message(Partner(ws),
                                         [type |-> "chat", text |-> TextAsked(raw)])>>
                   /\ T.clients = clients
                   /\ T.queue = queue
                   /\ T.rooms = rooms
            /\ clients[ws].roomId = Null
                => /\ ~T.threw
                   /\ T.sent = <<>>
                   /\ T.clients = clients
                   /\ T.queue = queue
                   /\ T.rooms = rooms

\* The positions of q whose socket has an open transport.
OpenEntries(q) == {k \in 1..Len(q) : readyState[q[k].ws] = "OPEN"}

\* E is the state a match attempt is given and T the state it returns: when
\* two entries of E's queue or more are open, T has a new room whose members
\* are two of them, and their entries are gone.
PairMade(E, T) ==
    Cardinality(OpenEntries(E.queue)) >= 2
    => \E r \in DOMAIN T.rooms \ DOMAIN E.rooms :
          \E i, j \in OpenEntries(E.queue) :
             /\ i # j
             /\ T.rooms[r] = [a |-> E.queue[i].ws, b |-> E.queue[j].ws]
             /\ \A k \in 1..Len(T.queue) :
                   T.queue[k].ws \notin {E.queue[i].ws, E.queue[j].ws}
             /\ Cardinality(OpenEntries(T.queue))
                   = Cardinality(OpenEntries(E.queue)) - 2

\* The sockets with an open transport that have an entry in the queue.
WaitingOpen == {queue[k].ws : k \in OpenEntries(queue)}

\* C11: under fairness of the interval callback, two entries with open
\* transports are never left waiting for ever: again and again the queue
\* holds at most one open entry. And every single match attempt given two
\* open entries or more, that of a find and that of the interval callback,
\* makes a room of two of them, whatever their preferences are and whatever
\* the clock reads.
C11_OpenPairMatched ==
    /\ [](/\ \A ws \in Registered, raw \in FindInputs :
                \A T \in FindOutcomes(ws, raw) :
                   PairMade(enqueue(Store, ws, raw), T)
          /\ \A T \in TickOutcomes :
                PairMade(cleanDead(Store), T))
    /\ []<>(Cardinality(WaitingOpen) <= 1)

\* The interval callback has made a room of two open sockets that have no
\* preference in common (one asks for a male beginner, the other for a female
\* advanced partner), and has removed an entry that was not open.
C11_Witness ==
    /\ queue = <<>>
    /\ \E r \in DOMAIN rooms, c \in DOMAIN clients :
          /\ readyState[rooms[r].a] = "OPEN"
          /\ readyState[rooms[r].b] = "OPEN"
          /\ clients[rooms[r].a].prefs = [gender |-> "male", level |-> "beginner"]
          /\ clients[rooms[r].b].prefs = [gender |-> "female", level |-> "advanced"]
          /\ clients[rooms[r].a].state = "chat"
          /\ clients[rooms[r].b].state = "chat"
          /\ readyState[c] = "CLOSING"
          /\ clients[c].state = "searching"

AnyAny == [gender |-> "any", level |-> "any"]

\* The queue holds two entries and no other, both {any, any} and open, the
\* first enqueued before the second.
TwoAnyAny ==
    /\ Len(queue) = 2
    /\ queue[1].prefs = AnyAny
    /\ queue[2].prefs = AnyAny
    /\ queue[1].enqueuedAt < queue[2].enqueuedAt
    /\ readyState[queue[1].ws] = "OPEN"
    /\ readyState[queue[2].ws] = "OPEN"

\* What the match attempt does with the queue of TwoAnyAny when the base
\* score of the pair is base, whatever the clock reads: the pair is the one
\* chosen, with total base + waiting bonus, which is 2 at least, the waits
\* being the time from each enqueue to the reading of the clock, and a room of
\* exactly these two is made.
PairsTheTwo(base) ==
    \A clk \in Clocks[2] :
    LET best == bestPair(queue, clk, 1, 2, NoBest)
        T == tryMatch(Store, clk)
    IN  /\ best = [none |-> FALSE, i |-> 1, j |-> 2,
                   total |-> totalFor(base, now - queue[1].enqueuedAt + clk[1],
                                            now - queue[2].enqueuedAt + clk[2])]
        /\ ~FGreater(FromInt(2), best.total)
        /\ T.queue = <<>>
        /\ \E r \in DOMAIN T.rooms :
              /\ DOMAIN T.rooms = DOMAIN rooms \cup {r}
              /\ r \notin DOMAIN rooms
              /\ T.rooms[r] = [a |-> queue[1].ws, b |-> queue[2].ws]

\* C12 (as claimed): given exactly two entries, both {any, any} and open,
\* enqueued at t0 < t1, the match attempt pairs exactly those two and the
\* total of the pair is 0 + 1 + 1 + waiting bonus.
C12_TotalTwo == TwoAnyAny => PairsTheTwo(0 + 1 + 1)

\* C12 (amended): given exactly two entries, both {any, any} and open,
\* enqueued at t0 < t1, the match attempt pairs exactly those two and the
\* total of the pair is 2 + 4 + 1 + 1 + waiting bonus (equal genders, equal
\* levels, a gender that is any, a level that is any), which is at least 2.
C12_TotalEight == TwoAnyAny => PairsTheTwo(2 + 4 + 1 + 1)

\* Two {any, any} entries, both open; the first has waited, the second has
\* just been pushed, the clock moves on between the two readings, and the
\* attempt makes their room.
C12_Witness ==
    /\ TwoAnyAny
    /\ now > queue[1].enqueuedAt
    /\ now = queue[2].enqueuedAt
    /\ \E clk \in Clocks[2] :
          /\ clk[1] < clk[2]
          /\ FGreater(bestPair(queue, clk, 1, 2, NoBest).total, FromInt(8))
          /\ tryMatch(Store, clk).queue = <<>>
          /\ Cardinality(DOMAIN tryMatch(Store, clk).rooms) = 1

Genders == {"male", "female", "any"}

Levels == {"beginner", "intermediate", "advanced", "any"}

AllPrefs == [gender : Genders, level : Levels]

\* The base score as the claim gives it.
BaseAsStated(p1, p2) ==
      (IF p1.gender = p2.gender THEN 2 ELSE 0)
    + (IF p1.level = p2.level THEN 4 ELSE 0)
    + (IF p1.gender = "any" \/ p2.gender = "any" THEN 1 ELSE 0)
    + (IF p1.level = "any" \/ p2.level = "any" THEN 1 ELSE 0)

\* matchScore on every pair of preference records of the claim.
ScoreTable ==
    \A p1, p2 \in AllPrefs :
        /\ matchScore(p1, p2) = BaseAsStated(p1, p2)
        /\ matchScore(p1, p2) = matchScore(p2, p1)
        /\ matchScore(p1, p2) \in 0..8

\* C13: for every two preference records over the three genders and the four
\* levels, matchScore is the sum of 2 if the genders are equal, 4 if the levels
\* are equal, 1 if a gender is any and 1 if a level is any; it is symmetric and
\* lies between 0 and 8. The totals the match attempt computes for the pairs of
\* the queue are that score plus the waiting bonus, whatever the clock reads.
C13_BaseScore ==
    /\ ScoreTable
    /\ \A i, j \in 1..Len(queue), dA \in 0..MaxDrift :
        \A dB \in dA..MaxDrift :
          total(queue[i], queue[j], DateNow(dA), DateNow(dB))
             = totalFor(BaseAsStated(queue[i].prefs, queue[j].prefs),
                        now - queue[i].enqueuedAt + dA,
                        now - queue[j].enqueuedAt + dB)

\* The queue holds an {any, any} entry and a {male, beginner} entry, both open
\* and just enqueued (score 1 + 1), and the attempt pairs them with that score
\* and the bonus of the time the readings of the clock take.
C13_Witness ==
    /\ Len(queue) = 2
    /\ queue[1].prefs = [gender |-> "any", level |-> "any"]
    /\ queue[2].prefs = [gender |-> "male", level |-> "beginner"]
    /\ now = queue[1].enqueuedAt
    /\ matchScore(queue[1].prefs, queue[2].prefs) = 2
    /\ matchScore(queue[2].prefs, queue[1].prefs) = 2
    /\ bestPair(queue, <<0, 0>>, 1, 2, NoBest).total = FromInt(2)
    /\ \A clk \in Clocks[2] :
          bestPair(queue, clk, 1, 2, NoBest)
             = [none |-> FALSE, i |-> 1, j |-> 2,
                total |-> totalFor(2, clk[1], clk[2])]

\* The pairs of positions of the queue, i < j, whose sockets are both open.
OpenPairs ==
    {p \in (1..Len(queue)) \X (1..Len(queue)) :
        /\ p[1] < p[2]
        /\ readyState[queue[p[1]].ws] = "OPEN"
        /\ readyState[queue[p[2]].ws] = "OPEN"}

\* The wait of the entry at position k when the handler starts, in
\* milliseconds.
WaitOf(k) == now - queue[k].enqueuedAt

\* p comes before q in the order the loops of tryMatch visit the pairs.
VisitedBefore(p, q) == p[1] < q[1] \/ (p[1] = q[1] /\ p[2] < q[2])

\* The number of readings of the clock taken before the pair p is evaluated:
\* two for each open pair the loops visit before p.
ReadingsBefore ==
    LET pairs == OpenPairs
    IN  [p \in pairs |-> 2 * Cardinality({q \in pairs : VisitedBefore(q, p)})] @@ <<>>

\* The total the claim gives for a pair of positions, as a number, times
\* 1000 * 6: base + min(10, (waitA + waitB) / 6), the waits in seconds being
\* measured when the pair is evaluated, dA and dB milliseconds after the
\* handler started.
TotalAsStated(p, dA, dB) ==
    1000 * 6 * BaseAsStated(queue[p[1]].prefs, queue[p[2]].prefs)
       + Min(10 * 1000 * 6, (WaitOf(p[1]) + dA) + (WaitOf(p[2]) + dB))

\* The same total as it is computed in doubles, the three divisions and the
\* two additions each rounding their result.
TotalInDoubles(p, dA, dB) ==
    totalFor(BaseAsStated(queue[p[1]].prefs, queue[p[2]].prefs),
             WaitOf(p[1]) + dA, WaitOf(p[2]) + dB)

\* The totals of the open pairs when the clock reads clk, each pair with the
\* two readings that fall to it.
TotalsInDoubles(clk) ==
    LET before == ReadingsBefore
    IN  [p \in DOMAIN before |->
            TotalInDoubles(p, clk[before[p] + 1], clk[before[p] + 2])]

\* The pair of positions the room r of T was made of.
PairOf(T, r) ==
    CHOOSE p \in (1..Len(queue)) \X (1..Len(queue)) :
        /\ queue[p[1]].ws = T.rooms[r].a
        /\ queue[p[2]].ws = T.rooms[r].b

\* The pair a match attempt on the queue chooses when the clock reads clk.
ChosenPair(clk) ==
    LET T == tryMatch(Store, clk)
    IN  PairOf(T, CHOOSE r \in DOMAIN T.rooms : r \notin DOMAIN rooms)

\* C14: when the match attempt makes a room, the two members are a pair of
\* open entries whose total, base + min(10, (waitA + waitB) / 6) with the
\* waits measured when the pair is evaluated, is the greatest of all pairs of
\* open entries, as a number and as the program computes it (in doubles,
\* every division and addition rounded), and no pair visited before it
\* (smaller i, or same i and smaller j) has the same computed total.
C14_BestPair ==
    LET pairs == OpenPairs
        before == ReadingsBefore
    IN  \A clk \in Clocks[2 * Cardinality(pairs)] :
           LET T == tryMatch(Store, clk)
           IN  \A r \in DOMAIN T.rooms \ DOMAIN rooms :
                  LET chosen == PairOf(T, r)
                      best == TotalAsStated(chosen, clk[before[chosen] + 1],
                                                     clk[before[chosen] + 2])
                      bestComputed ==
                          TotalInDoubles(chosen, clk[before[chosen] + 1],
                                                 clk[before[chosen] + 2])
                  IN  /\ chosen \in pairs
                      /\ \A q \in pairs :
                            LET t == TotalInDoubles(q, clk[before[q] + 1],
                                                       clk[before[q] + 2])
                            IN  /\ TotalAsStated(q, clk[before[q] + 1],
                                                    clk[before[q] + 2]) <= best
                                /\ ~FGreater(t, bestComputed)
                                /\ t = bestComputed => ~VisitedBefore(q, chosen)

\* Three open pairs. With one clock the pair chosen has the same computed
\* total as a pair visited after it, and is the first of the two; with
\* another clock the pair chosen is not the first one visited, its computed
\* total being greater than that of a pair visited before it.
C14_Witness ==
    /\ Cardinality(OpenPairs) >= 3
    /\ \E clk \in Clocks[2 * Cardinality(OpenPairs)] :
          LET computed == TotalsInDoubles(clk)
              chosen == ChosenPair(clk)
          IN  \E q \in OpenPairs :
                 /\ VisitedBefore(chosen, q)
                 /\ computed[q] = computed[chosen]
    /\ \E clk \in Clocks[2 * Cardinality(OpenPairs)] :
          LET computed == TotalsInDoubles(clk)
              chosen == ChosenPair(clk)
          IN  \E q \in OpenPairs :
                 /\ VisitedBefore(q, chosen)
                 /\ FGreater(computed[chosen], computed[q])

\* The entries of q whose socket is not open, in the order of q.
DeadEntries(q) == SelectSeq(q, LAMBDA e : readyState[e.ws] # "OPEN")

\* C15 (as claimed): after every match attempt, that of the interval callback
\* and that of a find, the queue holds no entry whose transport is not open.
C15_AlwaysPurged ==
    /\ \A T \in TickOutcomes :
          DeadEntries(T.queue) = <<>>
    /\ \A ws \in Registered, raw \in FindPayloads :
          \A T \in FindOutcomes(ws, raw) :
             DeadEntries(T.queue) = <<>>

\* C15 (amended): the interval callback purges the entries whose transport is
\* not open before its match attempt, and none is in the queue when it
\* completes; the match attempt of a find purges nothing: the entries whose
\* transport is not open are skipped and all stay in the queue.
C15_TickPurges ==
    /\ \A T \in TickOutcomes :
          DeadEntries(T.queue) = <<>>
    /\ DeadEntries(cleanDead(Store).queue) = <<>>
    /\ \A ws \in Registered, raw \in FindPayloads :
          \A T \in FindOutcomes(ws, raw) :
             DeadEntries(T.queue)
                = DeadEntries(enqueue(Store, ws, raw).queue)

\* Two entries wait, the first not open and the second open, and an open
\* socket can send find: its match attempt takes the open entry and leaves
\* the other; the interval callback removes it.
C15_Witness ==
    \E B \in Registered, raw \in FindPayloads :
        /\ readyState[B] = "OPEN"
        /\ ~InQueue(B)
        /\ Len(queue) = 2
        /\ readyState[queue[1].ws] = "CLOSING"
        /\ readyState[queue[2].ws] = "OPEN"
        /\ \A T \in FindOutcomes(B, raw) :
              T.queue = <<queue[1]>>
        /\ \A T \in TickOutcomes : T.queue = <<queue[2]>>

\* C16: when a room member sends chat while its partner's transport is not
\* open and the partner's close event is still to come, no chat is forwarded,
\* the sender is sent one partner_left and nothing else (nothing at all if its
\* own transport is not open either), the room is removed, and the sender is
\* idle without room reference; the close event of the partner, handled right
\* after or at any later time, sends nothing.
C16_ChatStalePartner ==
    /\ \A ws \in Registered, raw \in ChatInputs \cup NoStringPayloads :
          (InRoom(ws) /\ readyState[Partner(ws)] = "CLOSING")
          => LET T == dispatch(Store, ws, JSONparse(raw).value, <<>>)
             IN  /\ ~T.threw
                 /\ T.sent = IF readyState[ws] = "OPEN"
                             THEN <<Message(ws, [type |-> "partner_left"])>>
                             ELSE <<>>
                 /\ T.rooms = MapDelete(rooms, clients[ws].roomId)
                 /\ T.clients[ws].state = "idle"
                 /\ T.clients[ws].roomId = Null
                 /\ T.queue = queue
                 /\ onClose(T, Partner(ws)).sent = T.sent
    /\ \A B \in Registered :
          ( /\ readyState[B] = "CLOSING"
            /\ clients[B].roomId # Null
            /\ clients[B].roomId \notin DOMAIN rooms )
          => onClose(Store, B).sent = <<>>

\* Two sockets chat, one open and one whose close is pending: the chat of the
\* open one ends the room, and the other is left with a reference to it.
C16_Witness ==
    \E ws \in Registered, raw \in ChatPayloads :
        /\ InRoom(ws)
        /\ readyState[ws] = "OPEN"
        /\ readyState[Partner(ws)] = "CLOSING"
        /\ clients[ws].state = "chat"
        /\ LET T == dispatch(Store, ws, JSONparse(raw).value, <<>>)
           IN  /\ T.sent = <<Message(ws, [type |-> "partner_left"])>>
               /\ T.rooms = <<>>
               /\ T.clients[Partner(ws)].roomId = clients[ws].roomId
               /\ onClose(T, Partner(ws)).sent = T.sent

\* The preferences a find request asks for: the fields it supplies, "any" for
\* a field that is missing or empty.
PrefsAsked(raw) ==
    [gender |-> IF raw.hasPrefs /\ raw.gender \notin {Undefined, ""}
                THEN raw.gender ELSE "any",
     level  |-> IF raw.hasPrefs /\ raw.level \notin {Undefined, ""}
                THEN raw.level ELSE "any"]

\* The messages of out addressed to c, in order.
SentTo(out, c) == SelectSeq(out, LAMBDA m : m.to = c)

\* C17: a find is accepted in every state of the sender (idle, searching,
\* chatting). The room the sender was in is removed, and its partner, if open,
\* is sent one partner_left and is idle without room reference; the sender's
\* previous entry is removed; the sender's preferences are the ones asked for,
\* "any" for a missing field; the sender (if open) is sent 'searching' first;
\* and afterwards the sender either waits, with exactly one entry and in state
\* searching, or is a member of a room made by this request, with a partner
\* that waited.
C17_Find ==
    \A ws \in Registered, raw \in FindInputs :
      \A T \in FindOutcomes(ws, raw) :
        LET mine == {k \in 1..Len(T.queue) : T.queue[k].ws = ws}
            made == {r \in DOMAIN T.rooms : ws \in {T.rooms[r].a, T.rooms[r].b}}
        IN  /\ clients[ws].state \in {"idle", "searching", "chat"}
            /\ \A r \in RoomsOf(ws) :
                  /\ \A x \in DOMAIN T.rooms :
                        {T.rooms[x].a, T.rooms[x].b} # Members(r)
                  /\ readyState[Partner(ws)] = "OPEN"
                        => /\ SentTo(T.sent, Partner(ws))
                                = <<Message(Partner(ws), [type |-> "partner_left"])>>
                           /\ T.sent[1].to = Partner(ws)
                           /\ T.clients[Partner(ws)].state = "idle"
                           /\ T.clients[Partner(ws)].roomId = Null
            /\ T.clients[ws].prefs = PrefsAsked(raw)
            /\ readyState[ws] = "OPEN"
                  => /\ SentTo(T.sent, ws) # <<>>
                     /\ SentTo(T.sent, ws)[1].obj = [type |-> "searching"]
                     /\ \A k \in 2..Len(SentTo(T.sent, ws)) :
                           SentTo(T.sent, ws)[k].obj.type = "matched"
            /\ \/ /\ Cardinality(mine) = 1
                  /\ \A k \in mine :
                        T.queue[k] = [ws |-> ws, prefs |-> PrefsAsked(raw),
                                      enqueuedAt |-> now]
                  /\ T.clients[ws].state = "searching"
                  /\ T.clients[ws].roomId = Null
                  /\ made = {}
               \/ /\ mine = {}
                  /\ \E r \in made :
                        /\ made = {r}
                        /\ T.rooms[r].b = ws
                        /\ InQueue(T.rooms[r].a)
                        /\ T.rooms[r].a # ws
                        /\ T.clients[ws].state = "chat"
                        /\ T.clients[ws].roomId = r

\* The sender chats in a room whose other member's close is pending, and an
\* open socket waits: a find without preferences ends the room and puts the
\* sender, now {any, any}, in a new room with the one that waited.
C17_Witness ==
    \E ws \in Registered, raw \in FindInputs :
        /\ ~raw.hasPrefs
        /\ readyState[ws] = "OPEN"
        /\ clients[ws].state = "chat"
        /\ clients[ws].prefs # PrefsAsked(raw)
        /\ InRoom(ws)
        /\ Len(queue) = 1
        /\ readyState[queue[1].ws] = "OPEN"
        /\ \A T \in FindOutcomes(ws, raw) :
               /\ T.queue = <<>>
               /\ T.clients[ws].prefs = [gender |-> "any", level |-> "any"]
               /\ \E r \in DOMAIN T.rooms :
                     /\ DOMAIN T.rooms = {r}
                     /\ T.rooms[r] = [a |-> queue[1].ws, b |-> ws]
                     /\ T.sent = <<Message(ws, [type |-> "searching"]),
                                   Message(queue[1].ws, [type |-> "matched", roomId |-> r]),
                                   Message(ws, [type |-> "matched", roomId |-> r])>>

\* C18 (as claimed): in every reachable state, the lifecycle state of each
\* registered connection agrees with its memberships: searching exactly when
\* it has a queue entry, chat exactly when it is a member of a room of the
\* room table, idle exactly when it has neither.
C18_StateAgrees ==
    \A c \in DOMAIN clients :
        /\ clients[c].state = "searching" <=> InQueue(c)
        /\ clients[c].state = "chat" <=> InRoom(c)
        /\ clients[c].state = "idle" <=> (~InQueue(c) /\ ~InRoom(c))

\* Every room of the table has two registered members that reference it.
RoomsAreReferenced ==
    \A r \in DOMAIN rooms :
        \A c \in Members(r) : c \in DOMAIN clients /\ clients[c].roomId = r

\* C19 (as claimed): in every reachable state a registered connection c has
\* room reference r if and only if the room table has a room r of which c is
\* a member.
C19_RefsAgree ==
    /\ RoomsAreReferenced
    /\ \A c \in DOMAIN clients :
          clients[c].roomId # Null
          => /\ clients[c].roomId \in DOMAIN rooms
             /\ c \in Members(clients[c].roomId)

\* C19 (amended): in every reachable state every room of the table has two
\* registered members that both reference it, and a room reference of a
\* registered connection names a room of the table of which the connection is
\* a member, unless the connection's transport is no longer open (its close
\* event is pending) and the room it references has been removed.
C19_OpenRefsAgree ==
    /\ RoomsAreReferenced
    /\ \A c \in DOMAIN clients :
          clients[c].roomId # Null
          => \/ /\ clients[c].roomId \in DOMAIN rooms
                /\ c \in Members(clients[c].roomId)
             \/ /\ readyState[c] = "CLOSING"
                /\ clients[c].roomId \notin DOMAIN rooms

\* A connection whose close is pending references a room that is gone, while
\* its former partner is in a new room with a third connection.
C19_Witness ==
    \E c \in DOMAIN clients :
        /\ readyState[c] = "CLOSING"
        /\ clients[c].roomId # Null
        /\ clients[c].roomId \notin DOMAIN rooms
        /\ \E r \in DOMAIN rooms :
              /\ c \notin Members(r)
              /\ \A d \in Members(r) :
                    readyState[d] = "OPEN" /\ clients[d].roomId = r

\* The pairs of open entries of q that a match attempt on q compares.
CandidatePairs(q) == {p \in OpenEntries(q) \X OpenEntries(q) : p[1] < p[2]}

\* C20: after every event the queue holds at most one entry whose transport
\* is open; so the match attempt of a find has at most one pair of open
\* entries to choose from, that of the interval callback has none, and no
\* reachable match attempt compares the totals of two pairs.
C20_OneOpenEntry ==
    /\ Cardinality(OpenEntries(queue)) <= 1
    /\ \A ws \in Registered, raw \in FindPayloads :
          /\ Cardinality(CandidatePairs(enqueue(Store, ws, raw).queue)) <= 1
          /\ \A T \in FindOutcomes(ws, raw) :
                Cardinality(OpenEntries(T.queue)) <= 1
    /\ CandidatePairs(cleanDead(Store).queue) = {}
    /\ \A T \in TickOutcomes :
          Cardinality(OpenEntries(T.queue)) <= 1

\* One open entry waits and a second open socket, idle, can send find: its
\* match attempt has one candidate pair, and no open entry waits afterwards.
C20_Witness ==
    \E B \in Registered, raw \in FindPayloads :
        /\ readyState[B] = "OPEN"
        /\ clients[B].state = "idle"
        /\ clients[B].roomId = Null
        /\ Cardinality(OpenEntries(queue)) = 1
        /\ Cardinality(CandidatePairs(enqueue(Store, B, raw).queue)) = 1
        /\ \A T \in FindOutcomes(B, raw) :
              OpenEntries(T.queue) = {}
====
